---- MODULE Spec2Model ----
(***************************************************************************)
(* Model of the forma geometry library (src/src/forma/forma.cpp): the pure *)
(* relation functions over boxes, raster masks and fences.                 *)
(*                                                                         *)
(* Numbers.  Every coordinate is an integer counted in grid steps of       *)
(* 1/GridPerUnit coordinate units (a binary fixed-point reading of the     *)
(* float arguments; all values used are exactly representable in a float). *)
(* An area is counted in grid steps squared.  A float quotient n/d is the  *)
(* reduced pair <<n, d>>; d = 0 stands for the NaN/Inf a float division by *)
(* zero yields.                                                            *)
(*                                                                         *)
(* Geometry.  Polygons are rectilinear (every edge is axis parallel), so   *)
(* all areas are whole numbers of grid steps squared and the boolean       *)
(* operations of Boost.Geometry are computed exactly on the grid spanned   *)
(* by the operands' coordinates.                                           *)
(***************************************************************************)
EXTENDS Integers, Sequences, FiniteSets

VARIABLES box1, box2, mask1, mask2, fence, point, track, present, call, result

vars == <<box1, box2, mask1, mask2, fence, point, track, present, call, result>>

(***************************************************************************)
(* Bounds of the input families                                            *)
(***************************************************************************)
\* box and point coordinates range over 0..MaxCoord grid steps
MaxCoord == 2
\* the drawn raster masks have pixel columns 0..MaxCol and rows 0..MaxRow
MaxCol == 4
MaxRow == 1

\* a trajectory has at most MaxTrack positions
MaxTrack == 3

\* grid steps per coordinate unit (2^10); one pixel pitch is one unit
GridPerUnit == 2^10

(***************************************************************************)
(* Arithmetic helpers                                                      *)
(***************************************************************************)
Max(a, b) == IF a >= b THEN a ELSE b
Min(a, b) == IF a <= b THEN a ELSE b
Abs(a) == IF a < 0 THEN -a ELSE a

RECURSIVE Gcd(_, _)
Gcd(a, b) == IF b = 0 THEN a ELSE Gcd(b, a % b)

\* the float quotient n / d
Quot(n, d) ==
    IF d = 0 THEN <<(IF n = 0 THEN 0 ELSE 1), 0>>
    ELSE LET g == Gcd(Abs(n), Abs(d))
             s == IF d < 0 THEN -1 ELSE 1
         IN  <<s * (n \div g), s * (d \div g)>>

\* the float constant 0.0f returned by the guards
Zero == <<0, 1>>

\* r1 >= r2 for two finite quotients
RatioGe(r1, r2) == r1[1] * r2[2] >= r2[1] * r1[2]

(***************************************************************************)
(* object::Box and the analytic box functions                              *)
(***************************************************************************)
Box(l, t, r, b) == [left |-> l, top |-> t, right |-> r, bottom |-> b]

box_area(box) == (box.right - box.left) * (box.bottom - box.top)

\* intersection_box_area that takes box1's left edge for the overlap's
intersection_box_area_left1(b1, b2) ==
    LET left   == b1.left
        top    == Max(b1.top, b2.top)
        right  == Min(b1.right, b2.right)
        bottom == Min(b1.bottom, b2.bottom)
        width  == Max(0, right - left)
        height == Max(0, bottom - top)
    IN  width * height

\* intersection_box_area without the std::max(0.0f, .) on width and height
intersection_box_area_unclamped(b1, b2) ==
    LET left   == Max(b1.left, b2.left)
        top    == Max(b1.top, b2.top)
        right  == Min(b1.right, b2.right)
        bottom == Min(b1.bottom, b2.bottom)
    IN  (right - left) * (bottom - top)

intersection_box_area(b1, b2) ==
    LET left   == Max(b1.left, b2.left)
        top    == Max(b1.top, b2.top)
        right  == Min(b1.right, b2.right)
        bottom == Min(b1.bottom, b2.bottom)
        width  == Max(0, right - left)
        height == Max(0, bottom - top)
    IN  width * height

\* box_iou that does not subtract the intersection from the union
box_iou_sum_union(b1, b2) ==
    LET intersection_area == intersection_box_area(b1, b2)
        union_area == box_area(b1) + box_area(b2)
    IN  IF union_area <= 0 THEN Zero
        ELSE Quot(intersection_area, union_area)

box_iou(b1, b2) ==
    LET box1_area == box_area(b1)
        box2_area == box_area(b2)
        intersection_area == intersection_box_area(b1, b2)
        union_area == box1_area + box2_area - intersection_area
    IN  IF union_area <= 0 THEN Zero
        ELSE Quot(intersection_area, union_area)

\* intersection_over_min_box_ratio that divides by the larger area
intersection_over_min_box_ratio_max_area(b1, b2) ==
    LET intersection_area == intersection_box_area(b1, b2)
        max_area == Max(box_area(b1), box_area(b2))
    IN  IF max_area <= 0 THEN Zero
        ELSE Quot(intersection_area, max_area)

intersection_over_min_box_ratio(b1, b2) ==
    LET intersection_area == intersection_box_area(b1, b2)
        min_area == Min(box_area(b1), box_area(b2))
    IN  IF min_area <= 0 THEN Zero
        ELSE Quot(intersection_area, min_area)

\* point_in_box with strict comparisons (the boundary left out)
point_in_box_strict(p, box) ==
    /\ p[1] > box.left /\ p[1] < box.right
    /\ p[2] > box.top  /\ p[2] < box.bottom

point_in_box(p, box) ==
    /\ p[1] >= box.left /\ p[1] <= box.right
    /\ p[2] >= box.top  /\ p[2] <= box.bottom

(***************************************************************************)
(* Boost.Geometry on rings.  A ring is a sequence of points <<x, y>>; a    *)
(* polygon is its outer ring (no function of the library builds an inner   *)
(* ring); a multi-polygon is a sequence of polygons.                       *)
(***************************************************************************)
\* the empty BoostPolygon()
EmptyPolygon == <<>>

Reverse(s) == [i \in 1..Len(s) |-> s[Len(s) + 1 - i]]

\* boost::geometry::area of a closed clockwise ring, doubled: the sum of
\* (x1 + x2) * (y1 - y2) over its segments, 0 below the minimum ring size 4
RECURSIVE ShoelaceSum(_, _)
ShoelaceSum(ring, i) ==
    IF i >= Len(ring) THEN 0
    ELSE (ring[i][1] + ring[i+1][1]) * (ring[i][2] - ring[i+1][2])
         + ShoelaceSum(ring, i + 1)

RingArea2(ring) == IF Len(ring) < 4 THEN 0 ELSE ShoelaceSum(ring, 1)

\* boost::geometry::area of a polygon (rectilinear: the doubled sum is even)
PolygonArea(ring) == RingArea2(ring) \div 2

\* boost::geometry::correct: a ring of more than 2 points whose ends differ
\* is closed by repeating its first point; a ring of negative area is reversed
CloseRing(ring) ==
    IF Len(ring) > 2 /\ ring[1] # ring[Len(ring)] THEN Append(ring, ring[1])
    ELSE ring

Correct(ring) ==
    LET closed == CloseRing(ring)
    IN  IF RingArea2(closed) < 0 THEN Reverse(closed) ELSE closed

RECURSIVE MultiArea(_)
MultiArea(polys) ==
    IF polys = <<>> THEN 0
    ELSE PolygonArea(Head(polys)) + MultiArea(Tail(polys))

\* p lies on the segment from a to b
OnSegment(p, a, b) ==
    /\ (b[1] - a[1]) * (p[2] - a[2]) = (b[2] - a[2]) * (p[1] - a[1])
    /\ Min(a[1], b[1]) <= p[1] /\ p[1] <= Max(a[1], b[1])
    /\ Min(a[2], b[2]) <= p[2] /\ p[2] <= Max(a[2], b[2])

OnBoundary(p, ring) ==
    \E i \in 1..(Len(ring) - 1) : OnSegment(p, ring[i], ring[i+1])

\* the segment from a to b crosses the horizontal ray that leaves the point
\* (qx/2, qy/2) towards +x
Crosses(qx, qy, a, b) ==
    LET dy == b[2] - a[2]
        s  == IF dy < 0 THEN -1 ELSE 1
    IN  /\ (2 * a[2] > qy) # (2 * b[2] > qy)
        /\ s * (2 * a[1] * dy + (qy - 2 * a[2]) * (b[1] - a[1]) - qx * dy) > 0

\* the point (qx/2, qy/2) is in the interior of the ring (crossing parity)
Interior2(qx, qy, ring) ==
    /\ Len(ring) >= 4
    /\ Cardinality({i \in 1..(Len(ring) - 1) :
                        Crosses(qx, qy, ring[i], ring[i+1])}) % 2 = 1

\* boost::geometry::covered_by(point, polygon): interior or boundary; a ring
\* below the minimum size contains nothing
PointCoveredBy(p, ring) ==
    /\ Len(ring) >= 4
    /\ (OnBoundary(p, ring) \/ Interior2(2 * p[1], 2 * p[2], ring))

PointCoveredByMulti(p, polys) ==
    \E k \in 1..Len(polys) : PointCoveredBy(p, polys[k])

\* The grid spanned by the coordinates of two multi-polygons: a cell is
\* <<x1, x2, y1, y2>> with x1 < x2 and y1 < y2 neighbouring coordinates.
PointsOf(polys) == UNION {{polys[k][i] : i \in 1..Len(polys[k])} : k \in 1..Len(polys)}

Neighbours(S) == {c \in S \X S : c[1] < c[2] /\ ~ \E m \in S : c[1] < m /\ m < c[2]}

Cells(A, B) ==
    LET pts == PointsOf(A) \cup PointsOf(B)
        xs  == Neighbours({p[1] : p \in pts})
        ys  == Neighbours({p[2] : p \in pts})
    IN  {<<x[1], x[2], y[1], y[2]>> : x \in xs, y \in ys}

CellArea(c) == (c[2] - c[1]) * (c[4] - c[3])

CellIn(c, polys) ==
    \E k \in 1..Len(polys) : Interior2(c[1] + c[2], c[3] + c[4], polys[k])

RECURSIVE SumCells(_)
SumCells(S) ==
    IF S = {} THEN 0
    ELSE LET c == CHOOSE c \in S : TRUE
         IN  CellArea(c) + SumCells(S \ {c})

\* boost::geometry::area of boost::geometry::intersection(A, B)
IntersectionArea(A, B) ==
    SumCells({c \in Cells(A, B) : CellIn(c, A) /\ CellIn(c, B)})

\* boost::geometry::covered_by / within (areal, areal): no point of A lies
\* outside B and the two interiors meet.  A polygon of no area has no
\* interior of its own; its ring is then placed by the points of its
\* segments.
RECURSIVE HasPoints(_)
HasPoints(polys) ==
    /\ polys # <<>>
    /\ (Head(polys) # <<>> \/ HasPoints(Tail(polys)))

\* a ring with every coordinate doubled
Double(ring) == [i \in 1..Len(ring) |-> <<2 * ring[i][1], 2 * ring[i][2]>>]

\* a coordinate of S, or the step between two neighbouring ones
Steps(S) == Neighbours(S) \cup {<<v, v>> : v \in S}

\* the points of the rings of A on the grid of A and B, doubled: their
\* vertices and the middles of the pieces the grid cuts their segments into
BoundaryPoints2(A, B) ==
    LET pts == PointsOf(A) \cup PointsOf(B)
        xs  == Steps({p[1] : p \in pts})
        ys  == Steps({p[2] : p \in pts})
    IN  {q \in {<<x[1] + x[2], y[1] + y[2]>> : x \in xs, y \in ys} :
            \E k \in 1..Len(A) :
                \/ \E i \in 1..Len(A[k]) : q = Double(A[k])[i]
                \/ OnBoundary(q, Double(A[k]))}

ArealCoveredBy(A, B) ==
    /\ HasPoints(A) /\ HasPoints(B)
    /\ \A c \in Cells(A, B) : CellIn(c, A) => CellIn(c, B)
    /\ \A q \in BoundaryPoints2(A, B) :
           \E k \in 1..Len(B) : PointCoveredBy(q, Double(B[k]))

(***************************************************************************)
(* The shape adapters                                                      *)
(***************************************************************************)
\* the vertices taken as the ring in the order written, neither closed nor
\* reoriented
fence2polygon_as_written(f) ==
    IF Len(f) < 3 THEN EmptyPolygon
    ELSE f

fence2polygon(f) ==
    IF Len(f) < 3 THEN EmptyPolygon
    ELSE Correct(f)

box2polygon(box) ==
    Correct(<< <<box.left, box.top>>, <<box.right, box.top>>,
               <<box.right, box.bottom>>, <<box.left, box.bottom>> >>)

(***************************************************************************)
(* Fence functions                                                         *)
(***************************************************************************)
point_in_fence(p, f) == PointCoveredBy(p, fence2polygon(f))

\* box_in_fence that accepts a box as soon as it meets the fence
box_in_fence_intersects(box, f) ==
    LET fence_polygon == fence2polygon(f)
        box_polygon   == box2polygon(box)
    IN  IntersectionArea(<<box_polygon>>, <<fence_polygon>>) > 0

box_in_fence(box, f) ==
    LET fence_polygon == fence2polygon(f)
        box_polygon   == box2polygon(box)
    IN  ArealCoveredBy(<<box_polygon>>, <<fence_polygon>>)

intersection_box_fence_area(box, f) ==
    LET fence_polygon == fence2polygon(f)
        box_polygon   == box2polygon(box)
    IN  IntersectionArea(<<box_polygon>>, <<fence_polygon>>)

\* box_fence_iou without the guard on the union area
box_fence_iou_unguarded(box, f) ==
    LET fence_area == PolygonArea(fence2polygon(f))
        intersection_area == intersection_box_fence_area(box, f)
        union_area == box_area(box) + fence_area - intersection_area
    IN  Quot(intersection_area, union_area)

box_fence_iou(box, f) ==
    LET fence_polygon == fence2polygon(f)
        fence_area == PolygonArea(fence_polygon)
        intersection_area == intersection_box_fence_area(box, f)
        union_area == box_area(box) + fence_area - intersection_area
    IN  IF union_area <= 0 THEN Zero
        ELSE Quot(intersection_area, union_area)

intersection_over_min_box_fence_ratio(box, f) ==
    LET intersection_area == intersection_box_fence_area(box, f)
        fence_area == PolygonArea(fence2polygon(f))
        min_area == Min(box_area(box), fence_area)
    IN  IF min_area <= 0 THEN Zero
        ELSE Quot(intersection_area, min_area)

(***************************************************************************)
(* OpenCV raster masks.  A mask is the set of its non-zero pixels <<x, y>>. *)
(***************************************************************************)
Adjacent4(p, q) == Abs(p[1] - q[1]) + Abs(p[2] - q[2]) = 1

Around8(p) == ((p[1] - 1)..(p[1] + 1)) \X ((p[2] - 1)..(p[2] + 1))
Around4(p) == {<<p[1] - 1, p[2]>>, <<p[1] + 1, p[2]>>, <<p[1], p[2] - 1>>, <<p[1], p[2] + 1>>}

\* the pixels of S reachable from C through 8-adjacent pixels of S; F is the
\* part of C found last
RECURSIVE Grow8(_, _, _)
Grow8(S, C, F) ==
    LET N == (UNION {Around8(q) : q \in F} \cap S) \ C
    IN  IF N = {} THEN C ELSE Grow8(S, C \cup N, N)

RECURSIVE Grow4(_, _, _)
Grow4(S, C, F) ==
    LET N == (UNION {Around4(q) : q \in F} \cap S) \ C
    IN  IF N = {} THEN C ELSE Grow4(S, C \cup N, N)

\* the first pixel of S in raster-scan order
ScanFirst(S) ==
    CHOOSE p \in S : \A q \in S : p[2] < q[2] \/ (p[2] = q[2] /\ p[1] <= q[1])

\* the 8-connected components of the foreground, in raster-scan order
RECURSIVE Components(_)
Components(S) ==
    IF S = {} THEN <<>>
    ELSE LET C == Grow8(S, {ScanFirst(S)}, {ScanFirst(S)})
         IN  <<C>> \o Components(S \ C)

\* the background that is 4-connected to the outside of the raster
Outside(fg) ==
    LET xs == {p[1] : p \in fg}
        ys == {p[2] : p \in fg}
        x0 == (CHOOSE x \in xs : \A v \in xs : x <= v) - 1
        x1 == (CHOOSE x \in xs : \A v \in xs : x >= v) + 1
        y0 == (CHOOSE y \in ys : \A v \in ys : y <= v) - 1
        y1 == (CHOOSE y \in ys : \A v \in ys : y >= v) + 1
    IN  IF fg = {} THEN {}
        ELSE Grow4(((x0..x1) \X (y0..y1)) \ fg, {<<x0, y0>>}, {<<x0, y0>>})

\* cv::RETR_EXTERNAL: an outer border is kept when it faces the outside
\* background, not the background of a hole of another component
IsExternal(C, fg) ==
    LET out == Outside(fg)
    IN  \E p \in C : \E q \in out : Adjacent4(p, q)

\* a contour drawn around the outer edges of the border pixels instead of
\* through their centres
Contour_outer_edge(C) ==
    LET l == CHOOSE x \in {p[1] : p \in C} : \A p \in C : x <= p[1]
        r == CHOOSE x \in {p[1] : p \in C} : \A p \in C : x >= p[1]
        t == CHOOSE y \in {p[2] : p \in C} : \A p \in C : y <= p[2]
        b == CHOOSE y \in {p[2] : p \in C} : \A p \in C : y >= p[2]
    IN  << <<l, t>>, <<l, b + 1>>, <<r + 1, b + 1>>, <<r + 1, t>> >>

\* cv::CHAIN_APPROX_SIMPLE on the outer border of a component whose outline
\* is a pixel rectangle: the end points of its straight runs, from the
\* first pixel in scan order
Contour(C) ==
    LET l == CHOOSE x \in {p[1] : p \in C} : \A p \in C : x <= p[1]
        r == CHOOSE x \in {p[1] : p \in C} : \A p \in C : x >= p[1]
        t == CHOOSE y \in {p[2] : p \in C} : \A p \in C : y <= p[2]
        b == CHOOSE y \in {p[2] : p \in C} : \A p \in C : y >= p[2]
    IN  IF l = r /\ t = b THEN << <<l, t>> >>
        ELSE IF l = r THEN << <<l, t>>, <<l, b>> >>
        ELSE IF t = b THEN << <<l, t>>, <<r, t>> >>
        ELSE << <<l, t>>, <<l, b>>, <<r, b>>, <<r, t>> >>

\* the outline of C is a pixel rectangle (the masks of the input family)
RectOutline(C) ==
    \A p \in {q[1] : q \in C} \X {q[2] : q \in C} :
        ( \/ \A q \in C : p[1] <= q[1]
          \/ \A q \in C : p[1] >= q[1]
          \/ \A q \in C : p[2] <= q[2]
          \/ \A q \in C : p[2] >= q[2] ) => p \in C

RECURSIVE ExternalContours(_, _)
ExternalContours(comps, fg) ==
    IF comps = <<>> THEN <<>>
    ELSE (IF IsExternal(Head(comps), fg) THEN <<Contour(Head(comps))>> ELSE <<>>)
         \o ExternalContours(Tail(comps), fg)

findContours(fg) == ExternalContours(Components(fg), fg)

\* static_cast<float> of a pixel coordinate
PixelPoint(p) == <<p[1] * GridPerUnit, p[2] * GridPerUnit>>

\* the raster the caller would hold had cv::findContours traced it in
\* place: the function works on the buffer it is given and fills the pixels
\* on the border of the image with zeros
segmentation_mask_traced_in_place(fg) == {p \in fg : p[1] # 0 /\ p[2] # 0}

\* the raster the caller holds after mask2polygon: cv::findContours is given
\* segmentation.mask.clone(), so the caller's pixels are as they were
segmentation_mask_after(fg) == fg

mask2polygon(fg) ==
    LET cv_contours == findContours(fg)
    IN  [k \in 1..Len(cv_contours) |->
            Correct([i \in 1..Len(cv_contours[k]) |-> PixelPoint(cv_contours[k][i])])]

(***************************************************************************)
(* Mask functions                                                          *)
(***************************************************************************)
mask_area(m) == MultiArea(mask2polygon(m))

intersection_mask_area(m1, m2) ==
    IntersectionArea(mask2polygon(m1), mask2polygon(m2))

mask_iou(m1, m2) ==
    LET mask_polygons1 == mask2polygon(m1)
        mask_polygons2 == mask2polygon(m2)
        mask1_area == MultiArea(mask_polygons1)
        mask2_area == MultiArea(mask_polygons2)
        intersection_area == IntersectionArea(mask_polygons1, mask_polygons2)
        union_area == mask1_area + mask2_area - intersection_area
    IN  IF union_area <= 0 THEN Zero
        ELSE Quot(intersection_area, union_area)

intersection_over_min_mask_ratio(m1, m2) ==
    LET intersection_area == intersection_mask_area(m1, m2)
        min_area == Min(MultiArea(mask2polygon(m1)), MultiArea(mask2polygon(m2)))
    IN  IF min_area <= 0 THEN Zero
        ELSE Quot(intersection_area, min_area)

box_mask_iou(box, m) ==
    LET box_poly == box2polygon(box)
        mask_polys == mask2polygon(m)
        intersection_area == IntersectionArea(<<box_poly>>, mask_polys)
        box_geo_area == box_area(box)
        mask_geo_area == MultiArea(mask_polys)
        union_area == box_geo_area + mask_geo_area - intersection_area
    IN  IF union_area <= 0 THEN Zero
        ELSE Quot(intersection_area, union_area)

intersection_over_min_box_mask_ratio(box, m) ==
    LET box_poly == box2polygon(box)
        mask_polys == mask2polygon(m)
        intersection_area == IntersectionArea(<<box_poly>>, mask_polys)
        min_area == Min(box_area(box), MultiArea(mask_polys))
    IN  IF min_area <= 0 THEN Zero
        ELSE Quot(intersection_area, min_area)

\* mask_in_fence that accepts a mask as soon as one of its parts is within
\* the fence
mask_in_fence_any_part(m, f) ==
    LET fence_polygon == fence2polygon(f)
        mask_polygons == mask2polygon(m)
    IN  \E k \in 1..Len(mask_polygons) :
            ArealCoveredBy(<<mask_polygons[k]>>, <<fence_polygon>>)

mask_in_fence(m, f) ==
    LET fence_polygon == fence2polygon(f)
        mask_polygons == mask2polygon(m)
    IN  ArealCoveredBy(mask_polygons, <<fence_polygon>>)

intersection_mask_fence_area(m, f) ==
    IntersectionArea(mask2polygon(m), <<fence2polygon(f)>>)

mask_fence_iou(m, f) ==
    LET mask_geo_area == MultiArea(mask2polygon(m))
        fence_geo_area == PolygonArea(fence2polygon(f))
        intersection_area == intersection_mask_fence_area(m, f)
        union_area == mask_geo_area + fence_geo_area - intersection_area
    IN  IF union_area <= 0 THEN Zero
        ELSE Quot(intersection_area, union_area)

intersection_over_min_mask_fence_ratio(m, f) ==
    LET intersection_area == intersection_mask_fence_area(m, f)
        mask_geo_area == MultiArea(mask2polygon(m))
        fence_geo_area == PolygonArea(fence2polygon(f))
        min_area == Min(mask_geo_area, fence_geo_area)
    IN  IF min_area <= 0 THEN Zero
        ELSE Quot(intersection_area, min_area)

point_in_mask(p, m) == PointCoveredByMulti(p, mask2polygon(m))

(***************************************************************************)
(* The crossing direction analyzer (spec.md 4.4), for a box region: the    *)
(* positions of the trajectory are classified by point_in_box, and each    *)
(* consecutive pair is scanned once, in order.                             *)
(***************************************************************************)
\* the aggregate classification from the kinds of events seen
Classify(ins, outs) ==
    CASE ~ins /\ ~outs -> "NONE"
      [] ins /\ ~outs  -> "IN"
      [] ~ins /\ outs  -> "OUT"
      [] OTHER          -> "BOTH"

\* a scan that looks only at the last pair of positions
CrossingScan_last_pair(traj, region, i, ins, outs) ==
    LET n == Len(traj)
        prev == point_in_box(traj[n - 1], region)
        cur  == point_in_box(traj[n], region)
    IN  Classify(~prev /\ cur, prev /\ ~cur)

\* the scan from pair (traj[i-1], traj[i]) on, with the events seen so far
RECURSIVE CrossingScan(_, _, _, _, _)
CrossingScan(traj, region, i, ins, outs) ==
    IF i > Len(traj) THEN Classify(ins, outs)
    ELSE LET prev == point_in_box(traj[i - 1], region)
             cur  == point_in_box(traj[i], region)
         IN  CrossingScan(traj, region, i + 1,
                          ins \/ (~prev /\ cur), outs \/ (prev /\ ~cur))

\* crossingDirection that takes the object to start outside, so that a
\* first position inside the region counts as an IN event
crossingDirection_enters_at_start(traj, region) ==
    IF Len(traj) = 0 THEN "NONE"
    ELSE CrossingScan(traj, region, 2, point_in_box(traj[1], region), FALSE)

crossingDirection(traj, region) ==
    IF Len(traj) < 2 THEN "NONE"
    ELSE CrossingScan(traj, region, 2, FALSE, FALSE)

(***************************************************************************)
(* The input families.  A state holds the arguments a caller has at hand   *)
(* (present), the function called last and what it returned.               *)
(***************************************************************************)
Coords == 0..MaxCoord
Boxes == {Box(l, t, r, b) : l \in Coords, t \in Coords, r \in Coords, b \in Coords}
Points == Coords \X Coords

Scale(ring, u) == [i \in 1..Len(ring) |-> <<ring[i][1] * u, ring[i][2] * u>>]
ScaleBox(box, u) == Box(box.left * u, box.top * u, box.right * u, box.bottom * u)

\* the fence written as the rectangle l..r x t..b, from its (l, t) corner
RectFence(l, t, r, b) == << <<l, t>>, <<r, t>>, <<r, b>>, <<l, b>> >>

\* fences in steps of u: the degenerate ones (fewer than 3 vertices), every
\* rectangle with corners in xs \X ys and a concave (L-shaped) hexagon
Fences(xs, ys, u) ==
    LET rects == {c \in xs \X ys \X xs \X ys : c[1] < c[3] /\ c[2] < c[4]}
        shapes == {<<>>, << <<0, 0>> >>, << <<0, 0>>, <<2, 2>> >>,
                   << <<0, 0>>, <<2, 0>>, <<2, 1>>, <<1, 1>>, <<1, 2>>, <<0, 2>> >>}
                  \cup {RectFence(c[1], c[2], c[3], c[4]) : c \in rects}
    IN  {Scale(f, u) : f \in shapes}

\* the fences met by boxes and points: rectangles up to one step beyond the
\* boxes; the fences met by masks: rectangles over the first pixel columns
BoxFences == Fences(0..(MaxCoord + 1), 0..(MaxCoord + 1), 1)
PixelFences == Fences(0..2, 0..MaxRow, GridPerUnit)

\* cv::rectangle(mask, Point(l, t), Point(r, b), Scalar(255), cv::FILLED)
FilledRect(l, t, r, b) == (l..r) \X (t..b)

\* the drawn masks: no foreground, one filled rectangle, or two filled
\* rectangles that leave a background column between them
Masks ==
    LET one == {FilledRect(l, t, r, b) : l \in 0..MaxCol, t \in 0..MaxRow,
                                         r \in 0..MaxCol, b \in 0..MaxRow}
        two == {FilledRect(0, 0, l, MaxRow) \cup FilledRect(l + 2, 0, MaxCol, MaxRow) :
                    l \in 0..(MaxCol - 2)}
    IN  one \cup two

PixelBoxes == {ScaleBox(Box(l, t, r, b), GridPerUnit) :
                   l \in 0..2, t \in 0..MaxRow, r \in 0..2, b \in 0..MaxRow}
PixelPoints == {PixelPoint(p) : p \in (0..MaxCol) \X (0..MaxRow)}

\* the fixture of tests.cpp (FormaTestData), in grid steps
FixtureBoxes == {Box(10, 10, 30, 30), Box(20, 20, 40, 40), Box(100, 100, 120, 120),
                 Box(15, 15, 25, 25), Box(40, 40, 60, 60)}
FixtureFence == RectFence(0, 0, 50, 50)

\* a mask with a hole: a 3 x 3 square of foreground around one background
\* pixel, and the pixel centres of its raster
HoleMask == FilledRect(0, 0, 2, 2) \ {<<1, 1>>}
HolePoints == {PixelPoint(p) : p \in (0..2) \X (0..2)}

\* a component inside a hole of another: a 6 x 6 frame one pixel wide around
\* a 2 x 2 block that touches it nowhere
NestedMask == (FilledRect(0, 0, 5, 5) \ FilledRect(1, 1, 4, 4)) \cup FilledRect(2, 2, 3, 3)

NoBox == Box(0, 0, 0, 0)

\* a concave fence: the rectangle 0..3 x 0..2 with the notch 1..2 x 1..2 cut
\* out of its y = 2 side, and the boxes on its grid
NotchFence == << <<0, 0>>, <<3, 0>>, <<3, 2>>, <<2, 2>>, <<2, 1>>, <<1, 1>>, <<1, 2>>, <<0, 2>> >>
NotchBoxes == {Box(l, t, r, b) : l \in 0..3, t \in 0..2, r \in 0..3, b \in 0..2}

\* the regions a trajectory is classified against and its positions: a box
\* with one corner, one inner and one outer position on the diagonal, and
\* the box (20,20,40,40) with the positions (10,10) and (30,30)
TrackRegions == {Box(1, 1, MaxCoord + 1, MaxCoord + 1), Box(20, 20, 40, 40)}
TrackPoints == {<<c, c>> : c \in Coords} \cup {<<10, 10>>, <<30, 30>>}
Tracks == UNION {[1..n -> TrackPoints] : n \in 0..MaxTrack}

Family(has, b1s, b2s, m1s, m2s, fs, ps) ==
    /\ present = has
    /\ track = <<>>
    /\ box1 \in b1s /\ box2 \in b2s
    /\ mask1 \in m1s /\ mask2 \in m2s
    /\ fence \in fs /\ point \in ps

\* what a call returned, by return type: a float area, a float ratio, a
\* bool or a crossing direction; the fields the function called does not
\* return stay at rest
NoResult == [area |-> 0, ratio |-> Zero, flag |-> FALSE, dir |-> "NONE"]
AreaOf(v) == [NoResult EXCEPT !.area = v]
RatioOf(v) == [NoResult EXCEPT !.ratio = v]
FlagOf(v) == [NoResult EXCEPT !.flag = v]
DirOf(v) == [NoResult EXCEPT !.dir = v]

Init ==
    /\ call = "none"
    /\ result = NoResult
    /\ \/ Family({"box1", "box2"}, Boxes, Boxes, {{}}, {{}}, {<<>>}, {<<0, 0>>})
       \/ Family({"box1", "point"}, Boxes, {NoBox}, {{}}, {{}}, {<<>>}, Points)
       \/ Family({"box1", "fence"}, Boxes, {NoBox}, {{}}, {{}}, BoxFences, {<<0, 0>>})
       \/ Family({"fence", "point"}, {NoBox}, {NoBox}, {{}}, {{}}, BoxFences, Points)
       \/ Family({"box1", "fence"}, NotchBoxes, {NoBox}, {{}}, {{}}, {NotchFence}, {<<0, 0>>})
       \/ Family({"box1", "box2", "fence"}, FixtureBoxes, FixtureBoxes, {{}}, {{}},
                 {FixtureFence}, {<<0, 0>>})
       \/ Family({"mask1", "mask2"}, {NoBox}, {NoBox}, Masks, Masks, {<<>>}, {<<0, 0>>})
       \/ Family({"box1", "mask1"}, PixelBoxes, {NoBox}, Masks, {{}}, {<<>>}, {<<0, 0>>})
       \/ Family({"mask1", "fence"}, {NoBox}, {NoBox}, Masks, {{}}, PixelFences, {<<0, 0>>})
       \/ Family({"mask1", "point"}, {NoBox}, {NoBox}, Masks, {{}}, {<<>>}, PixelPoints)
       \/ Family({"mask1", "point"}, {NoBox}, {NoBox}, {HoleMask, NestedMask}, {{}}, {<<>>},
                 HolePoints)
       \/ /\ present = {"box1", "track"}
          /\ box1 \in TrackRegions /\ track \in Tracks
          /\ box2 = NoBox /\ mask1 = {} /\ mask2 = {} /\ fence = <<>> /\ point = <<0, 0>>

\* the caller, holding no result or repeating the call it made last, calls
\* function f on arguments that are present; the call returns value v. The
\* arguments are taken by const reference; a mask argument is handed to
\* mask2polygon, which leaves the caller's raster as segmentation_mask_after
\* says
Returns(needs, f, v) ==
    /\ call \in {"none", f}
    /\ needs \subseteq present
    /\ call' = f
    /\ result' = v
    /\ mask1' = IF "mask1" \in needs THEN segmentation_mask_after(mask1) ELSE mask1
    /\ mask2' = IF "mask2" \in needs THEN segmentation_mask_after(mask2) ELSE mask2
    /\ UNCHANGED <<box1, box2, fence, point, track, present>>

BoxArea == Returns({"box1"}, "box_area", AreaOf(box_area(box1)))

IntersectionBoxArea ==
    Returns({"box1", "box2"}, "intersection_box_area", AreaOf(intersection_box_area(box1, box2)))

BoxIou == Returns({"box1", "box2"}, "box_iou", RatioOf(box_iou(box1, box2)))

IntersectionOverMinBoxRatio ==
    Returns({"box1", "box2"}, "intersection_over_min_box_ratio",
            RatioOf(intersection_over_min_box_ratio(box1, box2)))

MaskArea == Returns({"mask1"}, "mask_area", AreaOf(mask_area(mask1)))

IntersectionMaskArea ==
    Returns({"mask1", "mask2"}, "intersection_mask_area",
            AreaOf(intersection_mask_area(mask1, mask2)))

MaskIou == Returns({"mask1", "mask2"}, "mask_iou", RatioOf(mask_iou(mask1, mask2)))

IntersectionOverMinMaskRatio ==
    Returns({"mask1", "mask2"}, "intersection_over_min_mask_ratio",
            RatioOf(intersection_over_min_mask_ratio(mask1, mask2)))

BoxMaskIou == Returns({"box1", "mask1"}, "box_mask_iou", RatioOf(box_mask_iou(box1, mask1)))

IntersectionOverMinBoxMaskRatio ==
    Returns({"box1", "mask1"}, "intersection_over_min_box_mask_ratio",
            RatioOf(intersection_over_min_box_mask_ratio(box1, mask1)))

PointInFence == Returns({"point", "fence"}, "point_in_fence", FlagOf(point_in_fence(point, fence)))

BoxInFence == Returns({"box1", "fence"}, "box_in_fence", FlagOf(box_in_fence(box1, fence)))

MaskInFence == Returns({"mask1", "fence"}, "mask_in_fence", FlagOf(mask_in_fence(mask1, fence)))

IntersectionBoxFenceArea ==
    Returns({"box1", "fence"}, "intersection_box_fence_area",
            AreaOf(intersection_box_fence_area(box1, fence)))

BoxFenceIou == Returns({"box1", "fence"}, "box_fence_iou", RatioOf(box_fence_iou(box1, fence)))

IntersectionMaskFenceArea ==
    Returns({"mask1", "fence"}, "intersection_mask_fence_area",
            AreaOf(intersection_mask_fence_area(mask1, fence)))

MaskFenceIou == Returns({"mask1", "fence"}, "mask_fence_iou", RatioOf(mask_fence_iou(mask1, fence)))

IntersectionOverMinBoxFenceRatio ==
    Returns({"box1", "fence"}, "intersection_over_min_box_fence_ratio",
            RatioOf(intersection_over_min_box_fence_ratio(box1, fence)))

IntersectionOverMinMaskFenceRatio ==
    Returns({"mask1", "fence"}, "intersection_over_min_mask_fence_ratio",
            RatioOf(intersection_over_min_mask_fence_ratio(mask1, fence)))

PointInBox == Returns({"point", "box1"}, "point_in_box", FlagOf(point_in_box(point, box1)))

PointInMask == Returns({"point", "mask1"}, "point_in_mask", FlagOf(point_in_mask(point, mask1)))

CrossingDirection ==
    Returns({"box1", "track"}, "crossingDirection", DirOf(crossingDirection(track, box1)))

\* the caller drops the result and is ready for the next call
Resume ==
    /\ call # "none"
    /\ call' = "none"
    /\ result' = NoResult
    /\ UNCHANGED <<box1, box2, mask1, mask2, fence, point, track, present>>

Next ==
    \/ BoxArea
    \/ IntersectionBoxArea
    \/ BoxIou
    \/ IntersectionOverMinBoxRatio
    \/ MaskArea
    \/ IntersectionMaskArea
    \/ MaskIou
    \/ IntersectionOverMinMaskRatio
    \/ BoxMaskIou
    \/ IntersectionOverMinBoxMaskRatio
    \/ PointInFence
    \/ BoxInFence
    \/ MaskInFence
    \/ IntersectionBoxFenceArea
    \/ BoxFenceIou
    \/ IntersectionMaskFenceArea
    \/ MaskFenceIou
    \/ IntersectionOverMinBoxFenceRatio
    \/ IntersectionOverMinMaskFenceRatio
    \/ PointInBox
    \/ PointInMask
    \/ CrossingDirection
    \/ Resume

Spec == Init /\ [][Next]_vars

(***************************************************************************)
(* The claims                                                              *)
(***************************************************************************)
\* the functions that return an IoU, and those that return an
\* intersection-over-min ratio
IouCalls == {"box_iou", "mask_iou", "box_mask_iou", "box_fence_iou", "mask_fence_iou"}
MinCalls == {"intersection_over_min_box_ratio", "intersection_over_min_mask_ratio",
             "intersection_over_min_box_mask_ratio",
             "intersection_over_min_box_fence_ratio",
             "intersection_over_min_mask_fence_ratio"}

\* a box of non-positive width or height
Degenerate(box) == box.right <= box.left \/ box.bottom <= box.top

\* the area of the region left <= x <= right, top <= y <= bottom
RegionArea(box) ==
    Max(0, box.right - box.left) * Max(0, box.bottom - box.top)

\* C1: for every box, inverted ones included, box_area returns
\* max(0, right-left) * max(0, bottom-top), which is never negative.
C1_BoxAreaClamped ==
    call = "box_area" => result.area = RegionArea(box1) /\ result.area >= 0

\* a finite quotient in the closed range [0, 1]
InUnitRange(r) == r[2] > 0 /\ 0 <= r[1] /\ r[1] <= r[2]

\* C2: in every pairing the IoU and the intersection-over-min ratio lie in
\* [0, 1], for inverted boxes and fences of fewer than 3 vertices too.
C2_RatiosInUnitRange ==
    call \in IouCalls \cup MinCalls => InUnitRange(result.ratio)

\* C3: a box of non-positive width or height has area 0, an empty
\* intersection with every other shape and ratio 0 in every pairing.
C3_DegenerateBoxIsEmpty ==
    /\ (call = "box_area" /\ Degenerate(box1)) => result.area = 0
    /\ (call = "intersection_box_area" /\ (Degenerate(box1) \/ Degenerate(box2)))
           => result.area = 0
    /\ (call = "intersection_box_fence_area" /\ Degenerate(box1)) => result.area = 0
    /\ (call \in {"box_iou", "intersection_over_min_box_ratio"}
            /\ (Degenerate(box1) \/ Degenerate(box2))) => result.ratio = Zero
    /\ (call \in {"box_fence_iou", "intersection_over_min_box_fence_ratio",
                  "box_mask_iou", "intersection_over_min_box_mask_ratio"}
            /\ Degenerate(box1)) => result.ratio = Zero

\* the region each shape stands for, as a multi-polygon: a box is the set
\* left <= x <= right, top <= y <= bottom (empty when degenerate)
BoxRegion(box) == IF Degenerate(box) THEN <<>> ELSE <<box2polygon(box)>>
FenceRegion(f) == <<fence2polygon(f)>>
MaskRegion(m) == mask2polygon(m)

\* the two regions the last call was about
RegionA ==
    IF call \in {"box_iou", "box_mask_iou", "box_fence_iou"} THEN BoxRegion(box1)
    ELSE MaskRegion(mask1)
RegionB ==
    CASE call = "box_iou" -> BoxRegion(box2)
      [] call = "mask_iou" -> MaskRegion(mask2)
      [] call = "box_mask_iou" -> MaskRegion(mask1)
      [] OTHER -> FenceRegion(fence)

\* C4: in every pairing the IoU is intersectionArea / (areaA + areaB -
\* intersectionArea), the areas being those of the two shapes' regions.
C4_IouIsInterOverUnion ==
    call \in IouCalls =>
        LET inter == IntersectionArea(RegionA, RegionB)
            union == MultiArea(RegionA) + MultiArea(RegionB) - inter
        IN  result.ratio[1] * union = inter * result.ratio[2]

\* the IoU of the pairing whose intersection-over-min ratio was called
IouOfPairing ==
    CASE call = "intersection_over_min_box_ratio" -> box_iou(box1, box2)
      [] call = "intersection_over_min_mask_ratio" -> mask_iou(mask1, mask2)
      [] call = "intersection_over_min_box_mask_ratio" -> box_mask_iou(box1, mask1)
      [] call = "intersection_over_min_box_fence_ratio" -> box_fence_iou(box1, fence)
      [] call = "intersection_over_min_mask_fence_ratio" -> mask_fence_iou(mask1, fence)

\* C5: in every pairing intersectionOverMin(A, B) >= iou(A, B).
C5_MinRatioAtLeastIou ==
    call \in MinCalls => RatioGe(result.ratio, IouOfPairing)

\* the areas the functions take for their shapes, and the denominator of
\* the ratio called last
AreaA == IF "box1" \in present THEN box_area(box1) ELSE MultiArea(mask2polygon(mask1))
AreaB ==
    IF "box2" \in present /\ call \in {"box_iou", "intersection_over_min_box_ratio"}
    THEN box_area(box2)
    ELSE IF "mask2" \in present THEN MultiArea(mask2polygon(mask2))
    ELSE IF "fence" \in present THEN PolygonArea(fence2polygon(fence))
    ELSE MultiArea(mask2polygon(mask1))
InterAB ==
    CASE call \in {"box_iou", "intersection_over_min_box_ratio"}
            -> intersection_box_area(box1, box2)
      [] call \in {"mask_iou", "intersection_over_min_mask_ratio"}
            -> intersection_mask_area(mask1, mask2)
      [] call \in {"box_mask_iou", "intersection_over_min_box_mask_ratio"}
            -> IntersectionArea(<<box2polygon(box1)>>, mask2polygon(mask1))
      [] call \in {"box_fence_iou", "intersection_over_min_box_fence_ratio"}
            -> intersection_box_fence_area(box1, fence)
      [] OTHER -> intersection_mask_fence_area(mask1, fence)
Denominator ==
    IF call \in IouCalls THEN AreaA + AreaB - InterAB ELSE Min(AreaA, AreaB)

\* a <= 1e-6, for an area a counted in grid steps squared
LeEps(a) == a <= (GridPerUnit * GridPerUnit) \div (10^6)

\* C6: a ratio whose denominator is <= 1e-6 is exactly 0, and no ratio is
\* NaN or infinite.
C6_EpsilonGuard ==
    call \in IouCalls \cup MinCalls =>
        /\ result.ratio[2] # 0
        /\ LeEps(Denominator) => result.ratio = Zero

\* C7: a fence of fewer than 3 vertices is an empty region: it contains no
\* box, mask or point, its area is 0, every intersection with it has area 0
\* and every ratio with it is 0.
C7_DegenerateFenceIsEmpty ==
    Len(fence) < 3 =>
        /\ PolygonArea(fence2polygon(fence)) = 0
        /\ call \in {"box_in_fence", "mask_in_fence", "point_in_fence"}
               => result.flag = FALSE
        /\ call \in {"intersection_box_fence_area", "intersection_mask_fence_area"}
               => result.area = 0
        /\ call \in {"box_fence_iou", "mask_fence_iou",
                     "intersection_over_min_box_fence_ratio",
                     "intersection_over_min_mask_fence_ratio"}
               => result.ratio = Zero

\* C7 witness: box_fence_iou was called on a box of positive area and a
\* fence of two vertices.
C7_Witness ==
    /\ call = "box_fence_iou" /\ Len(fence) = 2
    /\ box_area(box1) > 0 /\ result.ratio = Zero

\* C8: a point query against an empty or degenerate shape is false.
C8_PointInEmptyShapeIsFalse ==
    /\ (call = "point_in_box" /\ Degenerate(box1)) => result.flag = FALSE
    /\ (call = "point_in_fence" /\ Len(fence) < 3) => result.flag = FALSE
    /\ (call = "point_in_mask" /\ mask1 = {}) => result.flag = FALSE

\* C9: box_iou, intersection_over_min_box_ratio and intersection_box_area,
\* and their mask counterparts, return the same value with their two
\* arguments exchanged.
C9_Symmetric ==
    /\ call = "box_iou" => result.ratio = box_iou(box2, box1)
    /\ call = "intersection_over_min_box_ratio"
           => result.ratio = intersection_over_min_box_ratio(box2, box1)
    /\ call = "intersection_box_area" => result.area = intersection_box_area(box2, box1)
    /\ call = "mask_iou" => result.ratio = mask_iou(mask2, mask1)
    /\ call = "intersection_over_min_mask_ratio"
           => result.ratio = intersection_over_min_mask_ratio(mask2, mask1)
    /\ call = "intersection_mask_area" => result.area = intersection_mask_area(mask2, mask1)

\* C9 witness: box_iou was called on two different overlapping boxes.
C9_Witness ==
    /\ call = "box_iou" /\ box1 # box2
    /\ result.ratio[1] > 0 /\ result.ratio = box_iou(box2, box1)

\* C10: the IoU of a non-degenerate box with itself, and of a mask whose
\* contour polygons have positive area with itself, is exactly 1.
C10_SelfIouIsOne ==
    /\ (call = "box_iou" /\ box1 = box2 /\ ~Degenerate(box1)) => result.ratio = <<1, 1>>
    /\ (call = "mask_iou" /\ mask1 = mask2 /\ mask_area(mask1) > 0)
           => result.ratio = <<1, 1>>

\* C10 witness: mask_iou was called on a two-component mask and itself.
C10_Witness ==
    /\ call = "mask_iou" /\ mask1 = mask2
    /\ Len(mask2polygon(mask1)) = 2 /\ mask_area(mask1) > 0
    /\ result.ratio = <<1, 1>>

\* the two boxes overlap: some point lies strictly inside both (the point
\* (qx/2, qy/2), qx and qy sums of two of the boxes' edge coordinates)
StrictlyInside2(qx, qy, box) ==
    /\ 2 * box.left < qx /\ qx < 2 * box.right
    /\ 2 * box.top < qy /\ qy < 2 * box.bottom

Overlap(b1, b2) ==
    LET xs == {b1.left, b1.right, b2.left, b2.right}
        ys == {b1.top, b1.bottom, b2.top, b2.bottom}
    IN  \E x1 \in xs, x2 \in xs, y1 \in ys, y2 \in ys :
            /\ StrictlyInside2(x1 + x2, y1 + y2, b1)
            /\ StrictlyInside2(x1 + x2, y1 + y2, b2)

\* C11: intersection_box_area(b1, b2) is max(0, min(r1,r2) - max(l1,l2)) *
\* max(0, min(b1,b2) - max(t1,t2)); it is never negative and is 0 whenever
\* the boxes do not overlap (100 and 0 on the boxes of the tests).
C11_IntersectionBoxAreaFormula ==
    call = "intersection_box_area" =>
        /\ result.area = Max(0, Min(box1.right, box2.right) - Max(box1.left, box2.left))
                         * Max(0, Min(box1.bottom, box2.bottom) - Max(box1.top, box2.top))
        /\ result.area >= 0
        /\ ~Overlap(box1, box2) => result.area = 0
        /\ (box1 = Box(10, 10, 30, 30) /\ box2 = Box(20, 20, 40, 40)) => result.area = 100
        /\ (box1 = Box(10, 10, 30, 30) /\ box2 = Box(100, 100, 120, 120)) => result.area = 0

\* C11 witness: intersection_box_area was called on two different boxes
\* that overlap.
C11_Witness ==
    /\ call = "intersection_box_area" /\ box1 # box2
    /\ Overlap(box1, box2) /\ result.area > 0

\* the two regions an intersection-over-min call was about
MinRegionA ==
    IF call \in {"intersection_over_min_box_ratio", "intersection_over_min_box_mask_ratio",
                 "intersection_over_min_box_fence_ratio"}
    THEN BoxRegion(box1)
    ELSE MaskRegion(mask1)
MinRegionB ==
    CASE call = "intersection_over_min_box_ratio" -> BoxRegion(box2)
      [] call = "intersection_over_min_mask_ratio" -> MaskRegion(mask2)
      [] call = "intersection_over_min_box_mask_ratio" -> MaskRegion(mask1)
      [] OTHER -> FenceRegion(fence)

\* box a lies entirely inside box b
Inside(a, b) ==
    /\ b.left <= a.left /\ a.right <= b.right
    /\ b.top <= a.top /\ a.bottom <= b.bottom

\* C12: intersection-over-min is intersectionArea / min(areaA, areaB); when
\* one non-degenerate box (or mask) lies entirely inside the other,
\* intersection_over_min_box_ratio (intersection_over_min_mask_ratio) is 1
\* and box_iou is area(inner) / area(outer).
C12_IntersectionOverMin ==
    /\ call \in MinCalls =>
           LET inter == IntersectionArea(MinRegionA, MinRegionB)
               least == Min(MultiArea(MinRegionA), MultiArea(MinRegionB))
           IN  least > 0 => result.ratio[1] * least = inter * result.ratio[2]
    /\ (call = "intersection_over_min_box_ratio"
            /\ ~Degenerate(box1) /\ ~Degenerate(box2)
            /\ (Inside(box1, box2) \/ Inside(box2, box1))) => result.ratio = <<1, 1>>
    /\ (call = "box_iou" /\ ~Degenerate(box1) /\ ~Degenerate(box2)
            /\ Inside(box1, box2))
           => result.ratio = Quot(RegionArea(box1), RegionArea(box2))
    /\ (call = "intersection_over_min_mask_ratio"
            /\ mask_area(mask1) > 0 /\ mask_area(mask2) > 0
            /\ (mask1 \subseteq mask2 \/ mask2 \subseteq mask1)) => result.ratio = <<1, 1>>

\* C12 witness: intersection_over_min_box_ratio was called on a
\* non-degenerate box and a different box that holds it.
C12_Witness ==
    /\ call = "intersection_over_min_box_ratio" /\ box1 # box2
    /\ ~Degenerate(box1) /\ Inside(box1, box2)
    /\ result.ratio = <<1, 1>>

\* the point lies on an edge or a corner of the box (a box whose right is
\* left of its left, or bottom above its top, bounds no range and has none)
OnBoxEdge(p, box) ==
    /\ box.left <= box.right /\ box.top <= box.bottom
    /\ \/ (p[1] \in {box.left, box.right} /\ box.top <= p[2] /\ p[2] <= box.bottom)
       \/ (p[2] \in {box.top, box.bottom} /\ box.left <= p[1] /\ p[1] <= box.right)

\* the point lies one step or more beyond an edge of the box
BeyondBoxEdge(p, box) ==
    \/ p[1] <= box.left - 1 \/ p[1] >= box.right + 1
    \/ p[2] <= box.top - 1 \/ p[2] >= box.bottom + 1

\* C13: point_in_box(p, box) is true if and only if left <= p.x <= right
\* and top <= p.y <= bottom: a point on an edge or corner is inside, a
\* point one unit outside an edge is not.
C13_PointInBoxIsRangeCheck ==
    call = "point_in_box" =>
        /\ result.flag = (/\ box1.left <= point[1] /\ point[1] <= box1.right
                          /\ box1.top <= point[2] /\ point[2] <= box1.bottom)
        /\ OnBoxEdge(point, box1) => result.flag
        /\ BeyondBoxEdge(point, box1) => ~result.flag

\* C13 witness: point_in_box was called with a point on an edge of a
\* non-degenerate box and returned true.
C13_Witness ==
    /\ call = "point_in_box" /\ ~Degenerate(box1)
    /\ OnBoxEdge(point, box1) /\ result.flag

\* the points of the rectangle between the corners of the box, on the half
\* grid, doubled
BoxPoints2(box) ==
    ((2 * Min(box.left, box.right))..(2 * Max(box.left, box.right)))
        \X ((2 * Min(box.top, box.bottom))..(2 * Max(box.top, box.bottom)))

\* every point of the box's rectangle lies inside or on the boundary of the
\* fence polygon
RectWithinFence(box, f) ==
    LET ring2 == Double(fence2polygon(f))
    IN  \A q \in BoxPoints2(box) : PointCoveredBy(q, ring2)

Corners(box) ==
    {<<box.left, box.top>>, <<box.right, box.top>>,
     <<box.right, box.bottom>>, <<box.left, box.bottom>>}

\* C15: box_in_fence(box, fence) is true exactly when each of the four
\* corners of the box is inside the fence (point_in_fence), for every fence.
C15_BoxInFenceIsCornersInFence ==
    call = "box_in_fence" =>
        result.flag = (\A c \in Corners(box1) : point_in_fence(c, fence))

\* the foreground components of the mask, each the set of its pixels
Parts(m) == {Components(m)[k] : k \in 1..Len(Components(m))}

\* the component lies within the fence: the centre of each of its pixels is
\* inside or on the boundary of the fence polygon
PartWithinFence(C, f) ==
    \A p \in C : PointCoveredBy(PixelPoint(p), fence2polygon(f))

\* C16: mask_in_fence(mask, fence) is all-or-nothing over the parts of the
\* mask: it is true only if every foreground component lies within the
\* fence; with one component that straddles the fence or lies outside it the
\* result is false, even if other components are inside.
C16_MaskInFenceAllOrNothing ==
    call = "mask_in_fence" =>
        /\ result.flag => \A C \in Parts(mask1) : PartWithinFence(C, fence)
        /\ (\E C \in Parts(mask1) : ~PartWithinFence(C, fence)) => ~result.flag

\* C16 witness: mask_in_fence was called on a mask of two components of
\* positive area, one within the fence and one not, and returned false.
C16_Witness ==
    /\ call = "mask_in_fence" /\ Cardinality(Parts(mask1)) = 2
    /\ \A C \in Parts(mask1) : Cardinality(C) >= 4
    /\ \E C \in Parts(mask1) : PartWithinFence(C, fence)
    /\ \E C \in Parts(mask1) : ~PartWithinFence(C, fence)
    /\ ~result.flag

\* the area of one pixel, in grid steps squared
PixelArea == GridPerUnit * GridPerUnit

\* C17: mask_area(mask) is the number of non-zero pixels of the mask, for
\* every mask (single pixels, one-pixel-wide foregrounds, masks with holes
\* and filled rectangles included).
C17_MaskAreaIsPixelCount ==
    call = "mask_area" => result.area = Cardinality(mask1) * PixelArea

\* the pixel whose centre the point is
PixelOf(p) == <<p[1] \div GridPerUnit, p[2] \div GridPerUnit>>

\* C18: point_in_mask(p, mask) is true exactly when p falls on a non-zero
\* pixel of the mask; a point on a background pixel, that of a hole
\* included, is not in the mask.
C18_PointInMaskIsPixelTest ==
    call = "point_in_mask" => result.flag = (PixelOf(point) \in mask1)

\* the foreground of the mask is exactly the filled rectangle with corner
\* pixels (l, t) and (r, b), l < r and t < b
IsFilledRect(m, l, t, r, b) == l < r /\ t < b /\ m = FilledRect(l, t, r, b)

\* Box(l, t, r, b) on the pixel coordinates
PixelBox(l, t, r, b) == ScaleBox(Box(l, t, r, b), GridPerUnit)

\* the corner pixels <<l, t, r, b>> of the smallest pixel rectangle that
\* holds the foreground of a mask that has some
Corner(m) ==
    LET xs == {p[1] : p \in m}
        ys == {p[2] : p \in m}
    IN  << CHOOSE x \in xs : \A v \in xs : x <= v,
           CHOOSE y \in ys : \A v \in ys : y <= v,
           CHOOSE x \in xs : \A v \in xs : x >= v,
           CHOOSE y \in ys : \A v \in ys : y >= v >>

\* the mask is a filled rectangle with corner pixels (l, t), (r, b), l < r
\* and t < b
RectMask(m) ==
    /\ m # {}
    /\ IsFilledRect(m, Corner(m)[1], Corner(m)[2], Corner(m)[3], Corner(m)[4])

InRegion(p, box) ==
    /\ box.left <= p[1] /\ p[1] <= box.right
    /\ box.top <= p[2] /\ p[2] <= box.bottom

\* the consecutive pairs that go from outside to inside, and from inside to
\* outside
InEvents == {i \in 2..Len(track) : ~InRegion(track[i-1], box1) /\ InRegion(track[i], box1)}
OutEvents == {i \in 2..Len(track) : InRegion(track[i-1], box1) /\ ~InRegion(track[i], box1)}

\* C20: crossingDirection classifies the trajectory from its consecutive
\* pairs under the boundary-inclusive pointIn: NONE without events, IN with
\* only outside-to-inside pairs, OUT with only inside-to-outside pairs, BOTH
\* with both kinds (outside, inside, outside against Box (20,20,40,40) is
\* BOTH; every sample inside is NONE).
C20_CrossingDirection ==
    call = "crossingDirection" =>
        /\ result.dir = "NONE" <=> (InEvents = {} /\ OutEvents = {})
        /\ result.dir = "IN" <=> (InEvents # {} /\ OutEvents = {})
        /\ result.dir = "OUT" <=> (InEvents = {} /\ OutEvents # {})
        /\ result.dir = "BOTH" <=> (InEvents # {} /\ OutEvents # {})
        /\ (box1 = Box(20, 20, 40, 40)
               /\ track = << <<10, 10>>, <<30, 30>>, <<10, 10>> >>) => result.dir = "BOTH"
        /\ (\A i \in 1..Len(track) : InRegion(track[i], box1)) => result.dir = "NONE"

\* C20 witness: crossingDirection was called on a trajectory that enters
\* the region and leaves it again, and returned BOTH.
C20_Witness ==
    /\ call = "crossingDirection" /\ Len(track) = 3
    /\ InEvents = {2} /\ OutEvents = {3}
    /\ result.dir = "BOTH"

\* C21: for every region and every trajectory of fewer than 2 positions
\* (empty, or one position wherever it lies), crossingDirection is NONE.
C21_ShortTrackIsNone ==
    (call = "crossingDirection" /\ Len(track) < 2) => result.dir = "NONE"

\* C21 witness: crossingDirection was called on a trajectory of one
\* position that lies inside the region.
C21_Witness ==
    /\ call = "crossingDirection" /\ Len(track) = 1
    /\ InRegion(track[1], box1)
    /\ result.dir = "NONE"

\* the 4-vertex fence made of the corners of the box
CornerFence(box) == RectFence(box.left, box.top, box.right, box.bottom)

\* C22: the analytic box path agrees with the polygon path on rectangles:
\* for all boxes b1, b2, inverted ones included, and F2 the fence of b2's
\* corners, box_area(b2) is the polygon area of F2, intersection_box_area(b1,
\* b2) = intersection_box_fence_area(b1, F2), box_iou(b1, b2) =
\* box_fence_iou(b1, F2) and point_in_box(p, b2) = point_in_fence(p, F2).
C22_AnalyticPathAgreesWithPolygonPath ==
    /\ call = "box_area"
           => result.area = PolygonArea(fence2polygon(CornerFence(box1)))
    /\ call = "intersection_box_area"
           => result.area = intersection_box_fence_area(box1, CornerFence(box2))
    /\ call = "box_iou"
           => result.ratio = box_fence_iou(box1, CornerFence(box2))
    /\ call = "point_in_box"
           => result.flag = point_in_fence(point, CornerFence(box1))

\* the area of the polygon drawn through the contour of one component
PartArea(C) ==
    PolygonArea(Correct([i \in 1..Len(Contour(C)) |-> PixelPoint(Contour(C)[i])]))

\* the sum of the areas of the components that give a polygon part
RECURSIVE SumParts(_)
SumParts(comps) ==
    IF comps = <<>> THEN 0
    ELSE (IF Len(Contour(Head(comps))) >= 3 THEN PartArea(Head(comps)) ELSE 0)
         + SumParts(Tail(comps))

\* C23: mask conversion yields exactly one polygon part per disjoint
\* foreground component of the mask, wherever the components lie (one inside
\* a hole of another included), except that a contour of fewer than 3 points
\* yields no part; mask_area is the sum of the areas of these parts.
C23_OnePartPerComponent ==
    call = "mask_area" =>
        /\ Len(mask2polygon(mask1))
               = Cardinality({C \in Parts(mask1) : Len(Contour(C)) >= 3})
        /\ result.area = SumParts(Components(mask1))

\* the arguments of the calls: boxes, masks, fence, point and trajectory
Inputs == <<box1, box2, mask1, mask2, fence, point, track>>

Rotate(f) == [i \in 1..Len(f) |-> f[(i % Len(f)) + 1]]

\* other ways to write the polygon of fence f: in the opposite direction,
\* from the next starting vertex, or closed by its first vertex written again
Writings(f) == {Reverse(f), Rotate(f), Append(f, f[1])}

\* C25: fence results do not depend on how the same simple polygon is
\* written: for a fence of at least 3 vertices, reversing the vertex order,
\* rotating the starting vertex or appending the first vertex again leaves
\* point_in_fence, box_in_fence, intersection_box_fence_area, box_fence_iou
\* and intersection_over_min_box_fence_ratio unchanged, and the area of the
\* fence polygon is the same and never negative.
C25_FenceWritingIndependent ==
    Len(fence) >= 3 =>
        \A g \in Writings(fence) :
            /\ call = "point_in_fence" => result.flag = point_in_fence(point, g)
            /\ call = "box_in_fence" => result.flag = box_in_fence(box1, g)
            /\ call = "intersection_box_fence_area"
                   => result.area = intersection_box_fence_area(box1, g)
            /\ call = "box_fence_iou" => result.ratio = box_fence_iou(box1, g)
            /\ call = "intersection_over_min_box_fence_ratio"
                   => result.ratio = intersection_over_min_box_fence_ratio(box1, g)
            /\ call \in {"point_in_fence", "box_in_fence"}
                   => /\ PolygonArea(fence2polygon(g)) >= 0
                      /\ PolygonArea(fence2polygon(g)) = PolygonArea(fence2polygon(fence))

\* C25 witness: box_fence_iou has returned for a concave fence that the box
\* overlaps in part, so that the result depends on the shape of the fence.
C25_Witness ==
    /\ call = "box_fence_iou"
    /\ fence = NotchFence
    /\ result.ratio # Zero
    /\ intersection_box_fence_area(box1, fence) < box_area(box1)

====
